---- MODULE Spec2Model ----
(***************************************************************************)
(* GroupedSelect (src/src/components/common/GroupedSelect.tsx): a          *)
(* controlled, grouped dropdown selector.  The model covers the props the  *)
(* caller owns, the isOpen state, the render output (trigger label and     *)
(* grouped panel), the document-level mousedown listener installed by the  *)
(* effect, and the onChange callback log.                                  *)
(*                                                                         *)
(* Optional JavaScript values (option.group, the placeholder prop) are     *)
(* sequences of length at most one: <<>> is undefined, <<s>> is the        *)
(* string s.                                                               *)
(***************************************************************************)
EXTENDS Integers, Sequences, FiniteSets, TLC

VARIABLES
    value,          \* prop: the caller-owned selected value
    options,        \* prop: the option list
    placeholder,    \* prop: <<>> when the caller passes none
    disabled,       \* prop
    className,      \* prop: "" when the caller passes none
    lifecycle,      \* "unmounted" (before mount), "mounted", "disposed", "crashed"
    isOpen,         \* useState(false)
    containerRef,   \* "null" or "div"
    tree,           \* the committed render output
    listeners,      \* handlers registered on document for 'mousedown'
    cleanupHandler, \* <<h>>: the handler the pending effect cleanup removes
    pc,             \* "idle", or "effects" while passive effects are pending
    calls,          \* arguments of the onChange invocations, in order
    event,          \* the input event handled last
    triggerRun      \* enabled trigger activations in a row since a Closed
                    \* state, -1 when the run did not start from Closed

vars == <<value, options, placeholder, disabled, className, lifecycle, isOpen,
          containerRef, tree, listeners, cleanupHandler, pc, calls, event,
          triggerRun>>

props == <<value, options, placeholder, disabled, className>>

(***************************************************************************)
(* Bounds                                                                  *)
(***************************************************************************)
MaxOptions == 3     \* longest option list of the render specification
MaxRows == 2        \* longest option list of the interaction specification
MaxCalls == 2       \* onChange invocations recorded
MaxIndexKey == 12   \* largest integer whose decimal form is tried as a key
MaxRun == 3         \* longest run of trigger activations that is counted

(***************************************************************************)
(* JavaScript helpers                                                      *)
(***************************************************************************)
Digit == <<"0", "1", "2", "3", "4", "5", "6", "7", "8", "9">>

\* Number::toString for a non-negative integer
RECURSIVE NumberToString(_)
NumberToString(n) ==
    IF n < 10 THEN Digit[n + 1]
    ELSE NumberToString(n \div 10) \o Digit[(n % 10) + 1]

\* A property key is an array index when it is the canonical decimal form
\* of an integer: "10" is one, "01" and "b" are not.
IsArrayIndex(key) == \E n \in 0..MaxIndexKey : NumberToString(n) = key

ArrayIndexOf(key) == CHOOSE n \in 0..MaxIndexKey : NumberToString(n) = key

\* Properties every object literal inherits from Object.prototype; each is
\* a function (or the prototype object), hence truthy and without push.
ObjectPrototypeKeys ==
    {"constructor", "toString", "toLocaleString", "valueOf", "hasOwnProperty",
     "isPrototypeOf", "propertyIsEnumerable", "__proto__"}

\* A JS object is the sequence of its own properties [key, val] in creation
\* order.
HasOwn(obj, key) == \E i \in 1..Len(obj) : obj[i].key = key

OwnIndex(obj, key) == CHOOSE i \in 1..Len(obj) : obj[i].key = key

\* Truthiness of obj[key]: an own bucket (an array, truthy even when empty)
\* or an inherited member.
Truthy(obj, key) == HasOwn(obj, key) \/ key \in ObjectPrototypeKeys

\* obj[key] = []
SetEmpty(obj, key) ==
    IF HasOwn(obj, key)
    THEN [obj EXCEPT ![OwnIndex(obj, key)].val = <<>>]
    ELSE Append(obj, [key |-> key, val |-> <<>>])

\* obj[key].push(x); only called when obj[key] is an own array
Push(obj, key, x) ==
    [obj EXCEPT ![OwnIndex(obj, key)].val = Append(@, x)]

RECURSIVE SortedIndexKeys(_)
SortedIndexKeys(S) ==
    IF S = {} THEN <<>>
    ELSE LET m == CHOOSE k \in S :
                    \A o \in S : ArrayIndexOf(k) <= ArrayIndexOf(o)
         IN <<m>> \o SortedIndexKeys(S \ {m})

RECURSIVE StringKeys(_)
StringKeys(obj) ==
    IF obj = <<>> THEN <<>>
    ELSE IF IsArrayIndex(Head(obj).key) THEN StringKeys(Tail(obj))
    ELSE <<Head(obj).key>> \o StringKeys(Tail(obj))

\* OrdinaryOwnPropertyKeys: array-index keys in ascending numeric order,
\* then the other string keys in creation order.
OwnPropertyKeys(obj) ==
    SortedIndexKeys({obj[i].key : i \in {j \in 1..Len(obj) : IsArrayIndex(obj[j].key)}})
        \o StringKeys(obj)

\* Object.entries(obj)
ObjectEntries(obj) ==
    LET keys == OwnPropertyKeys(obj)
    IN [i \in 1..Len(keys) |-> obj[OwnIndex(obj, keys[i])]]

(***************************************************************************)
(* Render: lines 32-43 and the JSX of lines 67-145                         *)
(***************************************************************************)
\* option.group || 'Other'
GroupOf(option) ==
    IF option.group = <<>> \/ option.group[1] = "" THEN "Other"
    ELSE option.group[1]

\* One step of the reduce callback.  acc is [threw, obj].
Reducer(acc, option) ==
    IF acc.threw THEN acc
    ELSE LET group == GroupOf(option)
             obj1 == IF ~Truthy(acc.obj, group)
                     THEN SetEmpty(acc.obj, group) ELSE acc.obj
         IN IF HasOwn(obj1, group)
            THEN [threw |-> FALSE, obj |-> Push(obj1, group, option)]
            ELSE [threw |-> TRUE, obj |-> obj1]   \* TypeError: push is not a function

RECURSIVE Reduce(_, _)
Reduce(acc, opts) ==
    IF opts = <<>> THEN acc
    ELSE Reduce(Reducer(acc, Head(opts)), Tail(opts))

groupedOptions(opts) == Reduce([threw |-> FALSE, obj |-> <<>>], opts)

\* options.find(opt => opt.value === value): <<>> is undefined
selectedOption(opts, val) ==
    IF \E i \in 1..Len(opts) : opts[i].value = val
    THEN <<opts[CHOOSE i \in 1..Len(opts) :
                 /\ opts[i].value = val
                 /\ \A j \in 1..(i - 1) : opts[j].value # val]>>
    ELSE <<>>

\* the default parameter value placeholder = 'Select...'
PlaceholderText(ph) == IF ph = <<>> THEN "Select..." ELSE ph[1]

\* selectedOption?.label || placeholder
selectedLabel(opts, val, ph) ==
    LET sel == selectedOption(opts, val)
    IN IF sel # <<>> /\ sel[1].label # "" THEN sel[1].label
       ELSE PlaceholderText(ph)

\* one option row of the panel
OptionRow(option, val) ==
    [value |-> option.value, label |-> option.label,
     selected |-> (option.value = val)]

\* one header + rows block
GroupBlock(entry, val) ==
    [group |-> entry.key,
     rows |-> [i \in 1..Len(entry.val) |-> OptionRow(entry.val[i], val)]]

\* cn('relative', className): the falsy '' is dropped
ContainerClass(cls) == IF cls = "" THEN "relative" ELSE "relative " \o cls

NoTree ==
    [rendered |-> FALSE, class |-> "", label |-> "", panel |-> FALSE,
     groups |-> <<>>]

RenderThrows(opts) == groupedOptions(opts).threw

\* variant: the panel is rendered whatever isOpen is
RenderPanelAlways(val, opts, ph, cls, open) ==
    LET entries == ObjectEntries(groupedOptions(opts).obj)
    IN [rendered |-> TRUE,
        class |-> ContainerClass(cls),
        label |-> selectedLabel(opts, val, ph),
        panel |-> open,
        groups |-> [i \in 1..Len(entries) |-> GroupBlock(entries[i], val)]]

\* the element tree returned by GroupedSelect when the render does not throw
Render(val, opts, ph, cls, open) ==
    LET entries == ObjectEntries(groupedOptions(opts).obj)
    IN [rendered |-> TRUE,
        class |-> ContainerClass(cls),
        label |-> selectedLabel(opts, val, ph),
        panel |-> open,
        groups |-> IF open
                   THEN [i \in 1..Len(entries) |-> GroupBlock(entries[i], val)]
                   ELSE <<>>]

(***************************************************************************)
(* Inputs the caller may pass                                              *)
(***************************************************************************)
SeqsUpTo(S, n) == UNION {[1..k -> S] : k \in 0..n}

OptionValues == {"a", "b"}

LabelOf == [v \in OptionValues |-> IF v = "a" THEN "Alpha" ELSE "Beta"]

\* current values of the render specification; "z" is no option's value
SelectedValues == OptionValues \cup {"z"}

Placeholders == {<<>>, <<"Pick">>}

ClassNames == {"", "w-64"}

\* option lists of the interaction specification
SmallOptions ==
    {[value |-> "a", label |-> "Alpha", group |-> <<>>],
     [value |-> "b", label |-> "Beta", group |-> <<"G1">>],
     [value |-> "b", label |-> "Beta", group |-> <<"constructor">>]}

SmallOptionLists == SeqsUpTo(SmallOptions, MaxRows)

\* option lists of the render specification
RichGroups ==
    {<<>>, <<"">>, <<"Other">>, <<"b">>, <<"2">>, <<"10">>, <<"constructor">>}

RichOptions ==
    {[value |-> v, label |-> LabelOf[v], group |-> g] :
        v \in OptionValues, g \in RichGroups}
    \cup {[value |-> v, label |-> "", group |-> <<>>] : v \in OptionValues}

RichOptionLists == SeqsUpTo(RichOptions, MaxOptions)

PressTargets == {"outside", "trigger", "row"}

(***************************************************************************)
(* React runtime steps                                                     *)
(***************************************************************************)
\* variant: the panel starts open
InitialIsOpenTrue == TRUE

\* useState(false)
InitialIsOpen == FALSE

\* variant: the cleanup removes nothing
EffectCleanupLeaks(ls, h) == ls

\* The component leaves the page (unmount, or an uncaught render error):
\* the effect cleanup of lines 57-59 runs and the ref is detached.
EffectCleanup(ls, h) == ls \ {h}

\* variant: the component goes without running the effect cleanup
TeardownWithoutCleanup(how) ==
    /\ lifecycle' = how
    /\ tree' = NoTree
    /\ containerRef' = "null"
    /\ cleanupHandler' = <<>>
    /\ pc' = "idle"
    /\ UNCHANGED listeners

Teardown(how) ==
    /\ lifecycle' = how
    /\ tree' = NoTree
    /\ containerRef' = "null"
    /\ listeners' = IF cleanupHandler = <<>> THEN listeners
                    ELSE EffectCleanup(listeners, cleanupHandler[1])
    /\ cleanupHandler' = <<>>
    /\ pc' = "idle"

\* setIsOpen(next): a re-render with the new state, after which the effect
\* of lines 46-60 is pending because its dependency changed.  Setting the
\* current value again, or setting state of a component that is gone, does
\* nothing.
setIsOpen(next) ==
    IF lifecycle = "mounted" /\ next # isOpen
    THEN /\ isOpen' = next
         /\ tree' = Render(value, options, placeholder, className, next)
         /\ pc' = "effects"
         /\ UNCHANGED <<lifecycle, containerRef, listeners, cleanupHandler>>
    ELSE UNCHANGED <<isOpen, tree, pc, lifecycle, containerRef, listeners,
                     cleanupHandler>>

\* variant: the effect never registers the handler
EffectSetupNever(ls, h, open) == ls

\* if (isOpen) document.addEventListener('mousedown', handleClickOutside)
EffectSetup(ls, h, open) == IF open THEN ls \cup {h} ELSE ls

\* a handler closure not registered so far
FreshHandler(ls) ==
    CHOOSE h \in 0..Cardinality(ls) :
        h \notin ls /\ \A k \in 0..(h - 1) : k \in ls

\* Bookkeeping of the run of trigger activations: an event other than an
\* enabled trigger activation starts a new run from the state it leaves.
RunRestarts == triggerRun' = IF isOpen' THEN -1 ELSE 0

RunContinues ==
    triggerRun' = IF triggerRun >= 0 /\ triggerRun < MaxRun
                  THEN triggerRun + 1 ELSE -1

\* The pending passive effect runs: cleanup of the previous run, then the
\* effect body with the isOpen of the committed render.
FlushPassiveEffects ==
    /\ pc = "effects"
    /\ LET cleaned == IF cleanupHandler = <<>> THEN listeners
                      ELSE EffectCleanup(listeners, cleanupHandler[1])
           h == FreshHandler(cleaned)
       IN /\ listeners' = EffectSetup(cleaned, h, isOpen)
          /\ cleanupHandler' = <<h>>
    /\ pc' = "idle"
    /\ event' = "effects"
    /\ UNCHANGED <<props, lifecycle, isOpen, containerRef, tree, calls,
                   triggerRun>>

\* first render and commit
Mount ==
    /\ lifecycle = "unmounted"
    /\ event' = "mount"
    /\ isOpen' = InitialIsOpen
    /\ IF RenderThrows(options)
       THEN Teardown("crashed")
       ELSE /\ lifecycle' = "mounted"
            /\ tree' = Render(value, options, placeholder, className, InitialIsOpen)
            /\ containerRef' = "div"
            /\ pc' = "effects"
            /\ UNCHANGED <<listeners, cleanupHandler>>
    /\ RunRestarts
    /\ UNCHANGED <<props, calls>>

Unmount ==
    /\ lifecycle = "mounted"
    /\ pc = "idle"
    /\ event' = "unmount"
    /\ Teardown("disposed")
    /\ UNCHANGED <<props, isOpen, calls>>
    /\ RunRestarts

\* variant: new props reset the panel to closed
ParentRenderResets(val, opts, ph, dis, cls) ==
    /\ lifecycle = "mounted"
    /\ pc = "idle"
    /\ event' = "props"
    /\ value' = val
    /\ options' = opts
    /\ placeholder' = ph
    /\ disabled' = dis
    /\ className' = cls
    /\ isOpen' = FALSE
    /\ IF RenderThrows(opts)
       THEN Teardown("crashed")
       ELSE /\ tree' = Render(val, opts, ph, cls, FALSE)
            /\ pc' = IF isOpen THEN "effects" ELSE "idle"
            /\ UNCHANGED <<lifecycle, containerRef, listeners, cleanupHandler>>
    /\ UNCHANGED calls
    /\ RunRestarts

\* The caller re-renders the component with new props; isOpen is kept and
\* the effect is not re-run because its dependency [isOpen] is unchanged.
ParentRender(val, opts, ph, dis, cls) ==
    /\ lifecycle = "mounted"
    /\ pc = "idle"
    /\ event' = "props"
    /\ value' = val
    /\ options' = opts
    /\ placeholder' = ph
    /\ disabled' = dis
    /\ className' = cls
    /\ IF RenderThrows(opts)
       THEN Teardown("crashed")
       ELSE /\ tree' = Render(val, opts, ph, cls, isOpen)
            /\ UNCHANGED <<lifecycle, containerRef, listeners, cleanupHandler, pc>>
    /\ UNCHANGED <<isOpen, calls>>
    /\ RunRestarts

SetValue ==
    \E v \in OptionValues :
        ParentRender(v, options, placeholder, disabled, className)

SetOptions ==
    \E o \in SmallOptionLists :
        ParentRender(value, o, placeholder, disabled, className)

SetPlaceholder ==
    \E p \in Placeholders :
        ParentRender(value, options, p, disabled, className)

SetDisabled ==
    \E d \in BOOLEAN :
        ParentRender(value, options, placeholder, d, className)

SetClassName ==
    \E c \in ClassNames :
        ParentRender(value, options, placeholder, disabled, c)

(***************************************************************************)
(* Event handlers                                                          *)
(***************************************************************************)
\* variant: the handler opens but never closes
triggerOnClickOpensOnly ==
    IF ~disabled THEN setIsOpen(TRUE)
    ELSE UNCHANGED <<isOpen, tree, pc, lifecycle, containerRef, listeners,
                     cleanupHandler>>

\* variant: the handler does not test disabled
triggerOnClickUnguarded == setIsOpen(~isOpen)

\* onClick={() => !disabled && setIsOpen(!isOpen)}
triggerOnClick ==
    IF ~disabled THEN setIsOpen(~isOpen)
    ELSE UNCHANGED <<isOpen, tree, pc, lifecycle, containerRef, listeners,
                     cleanupHandler>>

TriggerClick ==
    /\ lifecycle = "mounted"
    /\ pc = "idle"
    /\ event' = "trigger"
    /\ triggerOnClick
    /\ IF disabled THEN RunRestarts ELSE RunContinues
    /\ UNCHANGED <<props, calls>>

\* variant: a selection is dropped while disabled
handleSelectUnlessDisabled(optionValue) ==
    /\ IF disabled
       THEN UNCHANGED <<calls, isOpen, tree, pc, lifecycle, containerRef,
                        listeners, cleanupHandler>>
       ELSE calls' = Append(calls, optionValue) /\ setIsOpen(FALSE)
    /\ UNCHANGED props

\* variant: the selection is reported but the panel is left open
handleSelectKeepsOpen(optionValue) ==
    /\ calls' = Append(calls, optionValue)
    /\ UNCHANGED <<isOpen, tree, pc, lifecycle, containerRef, listeners,
                   cleanupHandler>>
    /\ UNCHANGED props

\* variant: the widget stores the selection itself
handleSelectStoresValue(optionValue) ==
    /\ calls' = Append(calls, optionValue)
    /\ setIsOpen(FALSE)
    /\ value' = optionValue
    /\ UNCHANGED <<options, placeholder, disabled, className>>

\* const handleSelect = (optionValue) => { onChange(optionValue); setIsOpen(false); }
handleSelect(optionValue) ==
    /\ calls' = Append(calls, optionValue)
    /\ setIsOpen(FALSE)
    /\ UNCHANGED props

\* onClick of the option row r of group block g; rows exist only in a
\* rendered panel
OptionClick(g, r) ==
    /\ lifecycle = "mounted"
    /\ pc = "idle"
    /\ Len(calls) < MaxCalls
    /\ g \in 1..Len(tree.groups)
    /\ r \in 1..Len(tree.groups[g].rows)
    /\ event' = "option"
    /\ handleSelect(tree.groups[g].rows[r].value)
    /\ RunRestarts

\* containerRef.current.contains(event.target)
Contains(target) == target # "outside"

\* variant: the handler does not test where the press landed
handleClickOutsideAnywhere(target) ==
    IF containerRef # "null"
    THEN setIsOpen(FALSE)
    ELSE UNCHANGED <<isOpen, tree, pc, lifecycle, containerRef, listeners,
                     cleanupHandler>>

\* handleClickOutside
handleClickOutside(target) ==
    IF containerRef # "null" /\ ~Contains(target)
    THEN setIsOpen(FALSE)
    ELSE UNCHANGED <<isOpen, tree, pc, lifecycle, containerRef, listeners,
                     cleanupHandler>>

\* A mousedown reaches the document.  The trigger is a target while the
\* component is mounted, an option row while the panel is rendered.  Every
\* registered handler runs the same code on the same ref.
MouseDown(target) ==
    /\ pc = "idle"
    /\ target = "trigger" => lifecycle = "mounted"
    /\ target = "row" =>
          /\ lifecycle = "mounted"
          /\ \E g \in 1..Len(tree.groups) : tree.groups[g].rows # <<>>
    /\ event' = IF Contains(target) THEN "pressInside" ELSE "pressOutside"
    /\ IF listeners # {}
       THEN handleClickOutside(target)
       ELSE UNCHANGED <<isOpen, tree, pc, lifecycle, containerRef, listeners,
                        cleanupHandler>>
    /\ RunRestarts
    /\ UNCHANGED <<props, calls>>

(***************************************************************************)
(* Specifications                                                          *)
(***************************************************************************)
InitState ==
    /\ lifecycle = "unmounted"
    /\ isOpen = InitialIsOpen
    /\ containerRef = "null"
    /\ tree = NoTree
    /\ listeners = {}
    /\ cleanupHandler = <<>>
    /\ pc = "idle"
    /\ calls = <<>>
    /\ event = "none"
    /\ triggerRun = 0

\* interaction: every event, on short option lists
Init ==
    /\ value \in OptionValues
    /\ options \in SmallOptionLists
    /\ placeholder \in Placeholders
    /\ disabled \in BOOLEAN
    /\ className \in ClassNames
    /\ InitState

Next ==
    \/ Mount
    \/ FlushPassiveEffects
    \/ TriggerClick
    \/ \E g \in 1..MaxRows, r \in 1..MaxRows : OptionClick(g, r)
    \/ \E t \in PressTargets : MouseDown(t)
    \/ SetValue
    \/ SetOptions
    \/ SetPlaceholder
    \/ SetDisabled
    \/ SetClassName
    \/ Unmount

Spec == Init /\ [][Next]_vars

\* render: the component is mounted and opened on every option list
InitRender ==
    /\ value \in SelectedValues
    /\ options \in RichOptionLists
    /\ placeholder \in Placeholders
    /\ disabled = FALSE
    /\ className = ""
    /\ InitState

NextRender ==
    \/ Mount
    \/ FlushPassiveEffects
    \/ TriggerClick

SpecRender == InitRender /\ [][NextRender]_vars

(***************************************************************************)
(* Properties                                                              *)
(***************************************************************************)
Mounted == lifecycle = "mounted"

Open == Mounted /\ isOpen

AnyOptionClick == \E g \in 1..MaxRows, r \in 1..MaxRows : OptionClick(g, r)

\* C1: activating an option row while Open invokes onChange exactly once,
\* with the value of that row's option, and leaves the panel Closed; the
\* callback log grows only by an option-row activation.
C1_SelectReportsOnceAndCloses ==
    [][ /\ \A g \in 1..MaxRows, r \in 1..MaxRows :
              (Open /\ OptionClick(g, r)) =>
                  /\ calls' = Append(calls, tree.groups[g].rows[r].value)
                  /\ \E i \in 1..Len(options) :
                        options[i].value = tree.groups[g].rows[r].value
                  /\ ~isOpen'
        /\ calls' # calls => AnyOptionClick
      ]_vars

\* an option row was just activated: one more call, panel closed
C1_Witness ==
    /\ Mounted /\ event = "option" /\ pc = "effects"
    /\ calls # <<>> /\ ~isOpen

\* C2: while disabled is true a trigger activation changes neither the
\* visibility state nor the callback log, whether the panel is Open or
\* Closed.
C2_DisabledTriggerInert ==
    [][ (disabled /\ TriggerClick) => (isOpen' = isOpen /\ calls' = calls) ]_vars

\* the trigger was activated while disabled with the panel open
C2_Witness ==
    /\ Mounted /\ event = "trigger" /\ disabled /\ isOpen /\ pc = "idle"

\* C3: a mousedown outside the widget while Open closes the panel and
\* invokes no callback.
C3_OutsidePressCloses ==
    [][ (Open /\ MouseDown("outside")) => (~isOpen' /\ calls' = calls) ]_vars

\* an outside press has just closed the panel
C3_Witness ==
    /\ Mounted /\ event = "pressOutside" /\ pc = "effects" /\ ~isOpen
    /\ listeners # {}

\* C4: never more than one registered listener, and once the effect of the
\* current render has run a listener is registered iff the component is
\* mounted and Open.
C4_ListenerLockstep ==
    /\ Cardinality(listeners) <= 1
    /\ pc = "idle" => (listeners # {} <=> Open)

\* open again after a complete open/select/close cycle
C4_Witness ==
    /\ Open /\ pc = "idle" /\ Cardinality(listeners) = 1 /\ Len(calls) >= 1

\* C5: onChange is invoked only in an Open state whose panel is rendered,
\* option rows exist only while Open, and Open is entered only by a trigger
\* activation with disabled false.
C5_CallbackOnlyWhileOpen ==
    /\ [](tree.groups # <<>> => Open)
    /\ [][ calls' # calls => (Open /\ tree.panel /\ tree.groups # <<>>) ]_vars
    /\ [][ (~isOpen /\ isOpen') => (TriggerClick /\ ~disabled) ]_vars

\* a second selection, made after the panel was reopened
C5_Witness ==
    /\ Mounted /\ event = "option" /\ Len(calls) >= 2

\* C6: no step of the widget changes a prop; a selection leaves the trigger
\* label as it was, and a rendered row is marked selected iff its value is
\* the caller's value.
C6_ValueIsCallerOwned ==
    /\ [](\A g \in 1..Len(tree.groups) : \A r \in 1..Len(tree.groups[g].rows) :
            tree.groups[g].rows[r].selected
                <=> (tree.groups[g].rows[r].value = value))
    /\ [][ (\/ Mount \/ Unmount \/ FlushPassiveEffects \/ TriggerClick
            \/ AnyOptionClick \/ \E t \in PressTargets : MouseDown(t))
           => /\ UNCHANGED props
              /\ (Mounted /\ lifecycle' = "mounted") => tree'.label = tree.label
       ]_vars

\* an option other than the current value was selected; the value and the
\* label are still the old ones
C6_Witness ==
    /\ Mounted /\ event = "option" /\ calls # <<>>
    /\ calls[Len(calls)] # value
    /\ tree.label = selectedLabel(options, value, placeholder)
    /\ tree.label # LabelOf[calls[Len(calls)]]

\* the distinct group names of a list, in first-seen order
RECURSIVE FirstSeen(_, _)
FirstSeen(names, seen) ==
    IF names = <<>> THEN <<>>
    ELSE IF Head(names) \in seen THEN FirstSeen(Tail(names), seen)
    ELSE <<Head(names)>> \o FirstSeen(Tail(names), seen \cup {Head(names)})

\* the bucket an option belongs to by its group field
NamedGroup(option) ==
    IF Len(option.group) = 0 THEN "Other"
    ELSE IF option.group[1] = "" THEN "Other"
    ELSE option.group[1]

RECURSIVE Members(_, _)
Members(opts, name) ==
    IF opts = <<>> THEN <<>>
    ELSE IF NamedGroup(Head(opts)) = name
         THEN <<Head(opts)>> \o Members(Tail(opts), name)
         ELSE Members(Tail(opts), name)

\* C7: the rendered group blocks are in first-seen order of the group names
\* and every block lists its options in their original relative order.
C7_BucketsInFirstSeenOrder ==
    tree.panel =>
        LET order == FirstSeen([i \in 1..Len(options) |-> NamedGroup(options[i])], {})
        IN /\ Len(tree.groups) = Len(order)
           /\ \A i \in 1..Len(order) :
                /\ tree.groups[i].group = order[i]
                /\ LET m == Members(options, order[i])
                   IN tree.groups[i].rows
                        = [k \in 1..Len(m) |-> OptionRow(m[k], value)]

Count(seq, x) == Cardinality({i \in 1..Len(seq) : seq[i] = x})

\* C8: every render yields buckets, and every list position is in exactly
\* one of them, the one named by its group field ("Other" when the field is
\* absent or empty).
C8_EveryOptionInOneBucket ==
    /\ lifecycle # "crashed"
    /\ tree.panel =>
        /\ \A i, j \in 1..Len(tree.groups) :
              tree.groups[i].group = tree.groups[j].group => i = j
        /\ \A i \in 1..Len(options) :
              \E g \in 1..Len(tree.groups) :
                  tree.groups[g].group = NamedGroup(options[i])
        /\ \A g \in 1..Len(tree.groups) :
              \A i \in 1..Len(options) :
                  LET row == OptionRow(options[i], value)
                  IN Count(tree.groups[g].rows, row)
                       = Cardinality({k \in 1..Len(options) :
                            /\ NamedGroup(options[k]) = tree.groups[g].group
                            /\ OptionRow(options[k], value) = row})
        /\ \A g \in 1..Len(tree.groups) :
              Len(tree.groups[g].rows)
                 = Cardinality({k \in 1..Len(options) :
                      NamedGroup(options[k]) = tree.groups[g].group})

\* C9: the trigger label is the label of the first option whose value is
\* the current value, and it is the placeholder text exactly when no option
\* has that value.
C9_LabelOfFirstMatch ==
    tree.rendered =>
        LET matches == {i \in 1..Len(options) : options[i].value = value}
        IN /\ matches # {} =>
                tree.label =
                    options[CHOOSE i \in matches : \A j \in matches : i <= j].label
           /\ (tree.label = PlaceholderText(placeholder)) <=> (matches = {})

\* C10: the panel is Closed after the first render, and while Closed an
\* outside or inside press, a disabled trigger activation and every change
\* of a prop leave it Closed; only a trigger activation with disabled false
\* opens it.
C10_ClosedUntilEnabledTrigger ==
    /\ ~isOpen
    /\ [][ Mount => ~isOpen' ]_vars
    /\ [][ (~isOpen /\ (\/ \E t \in PressTargets : MouseDown(t)
                        \/ (disabled /\ TriggerClick)
                        \/ SetValue \/ SetOptions \/ SetPlaceholder \/ SetDisabled))
           => ~isOpen' ]_vars
    /\ [][ (~isOpen /\ isOpen') => (event' = "trigger" /\ ~disabled) ]_vars

\* an outside press arrived while the panel was closed and changed nothing
C10_Witness ==
    /\ Mounted /\ event = "pressOutside" /\ pc = "idle" /\ ~isOpen
    /\ listeners = {}

\* C11: a trigger activation with disabled false flips the visibility
\* state and invokes no callback, so after n such activations in a row
\* starting from Closed the panel is Open iff n is odd.
C11_TriggerFlips ==
    /\ [](triggerRun >= 0 => (isOpen <=> triggerRun % 2 = 1))
    /\ [][ (~disabled /\ TriggerClick) =>
              (isOpen' = ~isOpen /\ calls' = calls) ]_vars

\* two activations in a row from Closed: closed again
C11_Witness ==
    /\ Mounted /\ event = "trigger" /\ triggerRun = 2 /\ ~isOpen

Gone == lifecycle \in {"disposed", "crashed"}

\* C12: once the component is unmounted, from Open or from Closed, none of
\* its listeners is registered, and a later press changes neither the
\* visibility state nor the callback log.
C12_UnmountDeregisters ==
    /\ [](Gone => listeners = {})
    /\ [][ Unmount => (listeners' = {} /\ calls' = calls) ]_vars
    /\ [][ (Gone /\ \E t \in PressTargets : MouseDown(t))
              => UNCHANGED <<isOpen, calls, listeners, lifecycle>> ]_vars

\* unmounted while open, and a press arrived afterwards
C12_Witness ==
    /\ lifecycle = "disposed" /\ isOpen /\ event = "pressOutside"
    /\ listeners = {}

\* C13: while Open a press on the trigger or on an option row changes
\* nothing; the click that follows a press on the trigger closes the panel,
\* and the click that follows a press on a row still finds the row and
\* reports its value.
C13_InsidePressIgnored ==
    /\ [][ (Open /\ (MouseDown("trigger") \/ MouseDown("row")))
              => (isOpen' /\ tree' = tree /\ pc' = "idle" /\ calls' = calls
                  /\ listeners' = listeners) ]_vars
    /\ [][ (Open /\ event = "pressInside" /\ ~disabled /\ TriggerClick)
              => ~isOpen' ]_vars
    /\ [][ (Open /\ event = "pressInside" /\ AnyOptionClick)
              => (Len(calls') = Len(calls) + 1 /\ ~isOpen') ]_vars

\* a press inside the open widget was ignored by the registered handler
C13_Witness ==
    /\ Open /\ event = "pressInside" /\ pc = "idle" /\ listeners # {}
    /\ tree.groups # <<>>

\* C14: setting disabled while Open keeps the panel Open; while disabled a
\* trigger activation does not close it, an option selection still reports
\* and closes, an outside press still closes, and a Closed panel stays
\* Closed for as long as disabled is true.
C14_DisabledWhileOpen ==
    /\ [][ (isOpen /\ SetDisabled) => isOpen' ]_vars
    /\ [][ (disabled /\ Open /\ TriggerClick) => isOpen' ]_vars
    /\ [][ \A g \in 1..MaxRows, r \in 1..MaxRows :
              (disabled /\ Open /\ OptionClick(g, r)) =>
                  /\ calls' = Append(calls, tree.groups[g].rows[r].value)
                  /\ ~isOpen' ]_vars
    /\ [][ (disabled /\ Open /\ MouseDown("outside")) => ~isOpen' ]_vars
    /\ [][ (disabled /\ disabled' /\ ~isOpen) => ~isOpen' ]_vars

\* an option was selected while the widget was disabled
C14_Witness ==
    /\ Mounted /\ disabled /\ event = "option" /\ pc = "effects"
    /\ ~isOpen /\ Len(calls) = 1

AnyPropChange ==
    SetValue \/ SetOptions \/ SetPlaceholder \/ SetClassName \/ SetDisabled

\* C15: a change of value, options, placeholder, className or disabled
\* changes neither the visibility state nor the callback log; the
\* visibility state changes only on a trigger activation, an option
\* selection or an outside press.
C15_PropsLeaveVisibility ==
    /\ [][ AnyPropChange => (isOpen' = isOpen /\ calls' = calls) ]_vars
    /\ [][ isOpen' # isOpen =>
              (TriggerClick \/ AnyOptionClick \/ MouseDown("outside")) ]_vars

\* the caller changed a prop while the panel was open; it is still open
C15_Witness ==
    /\ Open /\ event = "props" /\ pc = "idle" /\ listeners # {}
    /\ tree.class = "relative w-64"

====
